---- MODULE Spec2Model ----
(***************************************************************************)
(* Model of mqanim's Animation (src/src/lib.rs): the virtual canvas, its   *)
(* hysteresis resize in set_camera, the render_state guard of draw_frame,  *)
(* the letterboxed blit, the mouse un-projection and the process-wide      *)
(* DEFAULT_FONT; of the coordinate mapper map (src/src/lib.rs); and of     *)
(* Graph (src/src/plot.rs): construction, axes, ticks, end-point arrows    *)
(* and the plotting of lines and points; and of Button (src/src/ui.rs):    *)
(* the update of the caller's `pushed` flag by draw.                       *)
(*                                                                         *)
(* f32 values are modelled as exact rationals <<num, den>> in lowest terms *)
(* with den > 0; rounding of f32 arithmetic is not modelled.  bg_color,    *)
(* filter_mode and the FXAA material do not influence any modelled field   *)
(* and are left out.                                                       *)
(***************************************************************************)
EXTENDS Integers, Sequences, FiniteSets, TLC

\* ---------------------------------------------------------------- bounds
\* Window dimensions range over 1..MaxWin, start dimensions over 1..MaxStart.
MaxWin == 5
MaxStart == 7
\* Animation::new is tried at most MaxNewCalls times in one process.
MaxNewCalls == 2

\* ------------------------------------------------------- exact arithmetic
Abs(n) == IF n < 0 THEN -n ELSE n

RECURSIVE GCD(_, _)
GCD(a, b) == IF b = 0 THEN a ELSE GCD(b, a % b)

\* The rational n/d in lowest terms with a positive denominator (d # 0).
Q(n, d) ==
    LET g == GCD(Abs(n), Abs(d))
        s == IF d < 0 THEN -1 ELSE 1
    IN  <<(s * n) \div g, (s * d) \div g>>

F(n) == <<n, 1>>

QAdd(a, b) == Q(a[1] * b[2] + b[1] * a[2], a[2] * b[2])
QSub(a, b) == Q(a[1] * b[2] - b[1] * a[2], a[2] * b[2])
QMul(a, b) == Q(a[1] * b[1], a[2] * b[2])
QDiv(a, b) == Q(a[1] * b[2], a[2] * b[1])
QLt(a, b) == a[1] * b[2] < b[1] * a[2]
QLe(a, b) == a[1] * b[2] <= b[1] * a[2]
QGt(a, b) == QLt(b, a)
QMin(a, b) == IF QLe(a, b) THEN a ELSE b

\* `x as u32` for a non-negative f32: truncation.
AsU32(a) == a[1] \div a[2]

vec2(x, y) == <<x, y>>

\* The literals 1. and 0.5 of lib.rs.
One == F(1)
Half == Q(1, 2)

\* ------------------------------------------------------------- constants
\* Mutant: a hysteresis of 30%.
RESIZE_HYSTERESIS_30 == Q(3, 10)

\* Mutant: a hysteresis of 25%.
RESIZE_HYSTERESIS_25 == Q(1, 4)

RESIZE_HYSTERESIS == Q(1, 2)

CameraRendering == "CameraRendering"
ScreenRendering == "ScreenRendering"

\* -------------------------------------------------------------- the state
VARIABLES
    DEFAULT_FONT,    \* the OnceLock<Font>: <<>> while unset, <<font>> once set
    animations,      \* the Animation objects that were constructed, in order
    screen,          \* the window: <<screen_width(), screen_height()>>
    gl_camera,       \* macroquad's active camera: <<>> is the default camera
    panic,           \* "none", or the panic that ended the process
    new_calls,       \* number of Animation::new calls made so far
    last,            \* history: the last operation and what it did
    hist,            \* history: per animation, its start size and most recent
                     \* camera call
    graph,           \* the Graph the caller holds: <<>> or <<g>>
    draws,           \* the draw calls the last Graph operation issued, in order
    glast,           \* history: the last call of map or of a Graph operation
    button,          \* the Button the caller holds: <<>> or <<b>>
    pushed,          \* the caller's bool that Button::draw is handed
    ulast            \* history: the last Button call, the host input it saw
                     \* and the presses of the Toggle button so far

\* The variables of map and Graph, and those of Animation (panic is shared).
graphVars == <<graph, draws, glast>>
animVars == <<DEFAULT_FONT, animations, screen, gl_camera, new_calls, last, hist>>

\* The variables of Button.
uiVars == <<button, pushed, ulast>>

vars == <<DEFAULT_FONT, animations, screen, gl_camera, panic, new_calls, last,
          hist, graph, draws, glast, button, pushed, ulast>>

\* Windows are landscape or square.
Windows == {w \in (1..MaxWin) \X (1..MaxWin) : w[2] <= w[1]}
\* Canvases are square or twice as wide as high.
StartSizes ==
    {s \in (1..MaxStart) \X (1..MaxStart) : s[1] = s[2] \/ s[1] = 2 * s[2]}

screen_width == F(screen[1])
screen_height == F(screen[2])

\* ---------------------------------------------------------- pure helpers
\* Mutant: the larger of the two ratios.
compute_scale_max(width, height, sw, sh) ==
    IF QLe(QDiv(sw, width), QDiv(sh, height))
    THEN QDiv(sh, height)
    ELSE QDiv(sw, width)

\* Animation::compute_scale, with the window size it reads passed in.
compute_scale(width, height, sw, sh) == QMin(QDiv(sw, width), QDiv(sh, height))

\* render_target(w as u32, h as u32)
render_target(w, h) == [width |-> AsU32(w), height |-> AsU32(h)]

\* Camera2D::from_display_rect(Rect::new(0, 0, w, h)) bound to the target.
new_camera(w, h, rt) == [rect |-> vec2(w, h), render_target |-> rt, target |-> vec2(F(0), F(0))]

\* Mutant: the new width is used for both dimensions.
resize_render_target_square(a, new_width, new_height) ==
    LET rt == render_target(new_width, new_width)
    IN  [a EXCEPT !.width = new_width,
                  !.height = new_width,
                  !.camera = new_camera(new_width, new_width, rt),
                  !.render_target = rt]

\* Animation::resize_render_target
resize_render_target(a, new_width, new_height) ==
    LET rt == render_target(new_width, new_height)
    IN  [a EXCEPT !.width = new_width,
                  !.height = new_height,
                  !.camera = new_camera(new_width, new_height, rt),
                  !.render_target = rt]

\* Mutant: the upper threshold tested with >= instead of >.
UpperBandInclusive(a) ==
    \/ QLe(QMul(a.draw_size[1], QAdd(One, RESIZE_HYSTERESIS)), a.width)
    \/ QLe(QMul(a.draw_size[2], QAdd(One, RESIZE_HYSTERESIS)), a.height)

UpperBand(a) ==
    \/ QGt(a.width, QMul(a.draw_size[1], QAdd(One, RESIZE_HYSTERESIS)))
    \/ QGt(a.height, QMul(a.draw_size[2], QAdd(One, RESIZE_HYSTERESIS)))

\* Mutant: the lower threshold tested with < instead of <=.
LowerBandStrict(a) ==
    \/ QLt(a.width, QMul(a.draw_size[1], QSub(One, RESIZE_HYSTERESIS)))
    \/ QLt(a.height, QMul(a.draw_size[2], QSub(One, RESIZE_HYSTERESIS)))

LowerBand(a) ==
    \/ QLe(a.width, QMul(a.draw_size[1], QSub(One, RESIZE_HYSTERESIS)))
    \/ QLe(a.height, QMul(a.draw_size[2], QSub(One, RESIZE_HYSTERESIS)))

\* Mutant: the auto_resize flag is not consulted.
ResizeBranchIgnoringFlag(a) ==
    IF UpperBand(a) THEN "upper"
    ELSE IF LowerBand(a) THEN "lower"
    ELSE "none"

\* Which reallocation one set_camera call performs.
ResizeBranch(a) ==
    IF a.auto_resize
    THEN IF UpperBand(a) THEN "upper"
         ELSE IF LowerBand(a) THEN "lower"
         ELSE "none"
    ELSE "none"

\* The Animation after the resize part of set_camera (lines 118-134).
AutoResized(a) ==
    CASE ResizeBranch(a) = "upper" ->
            resize_render_target(a, QMul(a.width, RESIZE_HYSTERESIS),
                                    QMul(a.height, RESIZE_HYSTERESIS))
      [] ResizeBranch(a) = "lower" ->
            resize_render_target(a, QDiv(QMul(a.width, One), RESIZE_HYSTERESIS),
                                    QDiv(QMul(a.height, One), RESIZE_HYSTERESIS))
      [] OTHER -> a

\* Animation::set_camera on the object.
set_camera(a) == [AutoResized(a) EXCEPT !.render_state = CameraRendering]

\* Mutant: set_default_camera forgets to reset render_state.
set_default_camera_keeps_state(a) == a

\* Animation::set_default_camera on the object.
set_default_camera(a) == [a EXCEPT !.render_state = ScreenRendering]

\* Mutant: draw_frame recomputes the scale and leaves draw_size alone.
draw_frame_keeps_draw_size(a, sw, sh) ==
    [a EXCEPT !.scale = compute_scale(a.width, a.height, sw, sh)]

\* The part of Animation::draw_frame after the render_state guard.
draw_frame(a, sw, sh) ==
    LET s == compute_scale(a.width, a.height, sw, sh)
    IN  [a EXCEPT !.scale = s,
                  !.draw_size = vec2(QMul(a.width, s), QMul(a.height, s))]

\* Mutant: the offsets are the whole free space, not half of it.
BlitRectNotCentred(a, sw, sh) ==
    [x |-> QSub(sw, QMul(a.width, a.scale)),
     y |-> QSub(sh, QMul(a.height, a.scale)),
     size |-> a.draw_size]

\* The rectangle draw_texture_ex is given by draw_frame: position and dest_size.
BlitRect(a, sw, sh) ==
    [x |-> QMul(QSub(sw, QMul(a.width, a.scale)), Half),
     y |-> QMul(QSub(sh, QMul(a.height, a.scale)), Half),
     size |-> a.draw_size]

\* Animation::screen_to_world
screen_to_world(a, point, sw, sh) ==
    vec2(QSub(QDiv(QSub(point[1],
                        QMul(QSub(sw, QMul(a.width, a.scale)), Half)),
                   a.scale),
              QMul(Half, a.width)),
         QSub(QMul(Half, a.height),
              QDiv(QSub(point[2],
                        QMul(QSub(sh, QMul(a.height, a.scale)), Half)),
                   a.scale)))

\* Mutant: the result of set is dropped, so a second font is silently ignored.
SetDefaultFontIgnoringErr(cell, font) ==
    [cell |-> IF cell = <<>> THEN <<font>> ELSE cell, panicked |-> FALSE]

\* DEFAULT_FONT.set(font).expect(..): the cell afterwards and whether it panicked.
SetDefaultFont(cell, font) ==
    IF cell = <<>>
    THEN [cell |-> <<font>>, panicked |-> FALSE]
    ELSE [cell |-> cell, panicked |-> TRUE]

\* The Self value Animation::new returns.
NewAnimation(start_width, start_height, sw, sh) ==
    LET rt == render_target(start_width, start_height)
    IN  [render_target |-> rt,
         camera |-> new_camera(start_width, start_height, rt),
         render_state |-> ScreenRendering,
         draw_size |-> vec2(start_width, start_height),
         width |-> start_width,
         height |-> start_height,
         scale |-> compute_scale(start_width, start_height, sw, sh),
         auto_resize |-> TRUE]

\* The blit transform of draw_frame applied to a world point of the canvas: the
\* camera shows x in -width/2..width/2 left to right and y in -height/2..height/2
\* bottom to top (lines 34-36), and the texture is drawn into the rectangle at
\* ((W - width*s)/2, (H - height*s)/2) of size (width*s, height*s), where s is
\* the scale draw_frame computes for the window (lines 160-167).
Project(a, p, sw, sh) ==
    LET s == compute_scale(a.width, a.height, sw, sh)
    IN  vec2(QAdd(QMul(QSub(sw, QMul(a.width, s)), Half),
                  QMul(QAdd(p[1], QMul(Half, a.width)), s)),
             QAdd(QMul(QSub(sh, QMul(a.height, s)), Half),
                  QMul(QSub(QMul(Half, a.height), p[2]), s)))

\* World points inside the canvas of a: its top right corner and an interior
\* point of the lower right quadrant.
CanvasPoints(a) ==
    {vec2(QMul(Half, a.width), QMul(Half, a.height)),
     vec2(QMul(Q(1, 4), a.width), QSub(F(0), QMul(Q(1, 4), a.height)))}

NoOp ==
    [op |-> "start", who |-> 0, branch |-> "none", pre |-> <<>>, blit |-> <<>>,
     mouse |-> <<>>]

NoCall == [op |-> "start", args |-> <<>>, result |-> <<>>]

\* Before any Button call: origin is the value of pushed that the count of
\* presses starts from.
NoFrame == [op |-> "start", mouse |-> <<>>, pressed |-> FALSE, down |-> FALSE,
            pre |-> FALSE, colors |-> "none", origin |-> FALSE, presses |-> 0]

\* ------------------------------------------------------------------ Init
Init ==
    /\ DEFAULT_FONT = <<>>
    /\ animations = <<>>
    /\ screen \in Windows
    /\ gl_camera = <<>>
    /\ panic = "none"
    /\ new_calls = 0
    /\ last = NoOp
    /\ hist = <<>>
    /\ graph = <<>>
    /\ draws = <<>>
    /\ glast = NoCall
    /\ button = <<>>
    /\ pushed = FALSE
    /\ ulast = NoFrame

\* --------------------------------------------------------------- actions
\* Animation::new(start_width, start_height, bg_color)
New(sw0, sh0) ==
    /\ panic = "none"
    /\ new_calls < MaxNewCalls
    /\ LET font == new_calls + 1
           r == SetDefaultFont(DEFAULT_FONT, font)
       IN  /\ new_calls' = new_calls + 1
           /\ DEFAULT_FONT' = r.cell
           /\ IF r.panicked
              THEN /\ panic' = "font"
                   /\ last' = [NoOp EXCEPT !.op = "new"]
                   /\ UNCHANGED <<animations, hist>>
              ELSE /\ panic' = panic
                   /\ animations' = Append(animations,
                          NewAnimation(F(sw0), F(sh0), screen_width, screen_height))
                   /\ hist' = Append(hist,
                          [camera_call |-> "none", start |-> vec2(F(sw0), F(sh0))])
                   /\ last' = [NoOp EXCEPT !.op = "new", !.who = Len(animations')]
    /\ UNCHANGED <<screen, gl_camera>>
    /\ UNCHANGED graphVars
    /\ UNCHANGED uiVars

\* Animation::disable_auto_resize
DisableAutoResize(i) ==
    /\ panic = "none"
    /\ animations' = [animations EXCEPT ![i].auto_resize = FALSE]
    /\ last' = [NoOp EXCEPT !.op = "disable_auto_resize", !.who = i]
    /\ UNCHANGED <<DEFAULT_FONT, screen, gl_camera, panic, new_calls, hist>>
    /\ UNCHANGED graphVars
    /\ UNCHANGED uiVars

\* Animation::set_camera
SetCamera(i) ==
    /\ panic = "none"
    /\ animations' = [animations EXCEPT ![i] = set_camera(animations[i])]
    /\ gl_camera' = <<animations'[i].camera>>
    /\ last' = [NoOp EXCEPT !.op = "set_camera", !.who = i,
                            !.branch = ResizeBranch(animations[i]),
                            !.pre = <<animations[i]>>]
    /\ hist' = [hist EXCEPT ![i].camera_call = "set_camera"]
    /\ UNCHANGED <<DEFAULT_FONT, screen, panic, new_calls>>
    /\ UNCHANGED graphVars
    /\ UNCHANGED uiVars

\* Animation::set_default_camera
SetDefaultCamera(i) ==
    /\ panic = "none"
    /\ animations' = [animations EXCEPT ![i] = set_default_camera(animations[i])]
    /\ gl_camera' = <<>>
    /\ last' = [NoOp EXCEPT !.op = "set_default_camera", !.who = i]
    /\ hist' = [hist EXCEPT ![i].camera_call = "set_default_camera"]
    /\ UNCHANGED <<DEFAULT_FONT, screen, panic, new_calls>>
    /\ UNCHANGED graphVars
    /\ UNCHANGED uiVars

\* Animation::draw_frame
DrawFrame(i) ==
    /\ panic = "none"
    /\ IF animations[i].render_state = CameraRendering
       THEN /\ panic' = "draw_frame"
            /\ last' = [NoOp EXCEPT !.op = "draw_frame", !.who = i]
            /\ UNCHANGED animations
       ELSE /\ panic' = panic
            /\ animations' = [animations EXCEPT
                   ![i] = draw_frame(animations[i], screen_width, screen_height)]
            /\ last' = [NoOp EXCEPT !.op = "draw_frame", !.who = i,
                          !.blit = <<BlitRect(animations'[i], screen_width,
                                              screen_height)>>]
    /\ UNCHANGED <<DEFAULT_FONT, screen, gl_camera, new_calls, hist>>
    /\ UNCHANGED graphVars
    /\ UNCHANGED uiVars

\* Animation::get_world_mouse, with the cursor on the screen position where the
\* blit transform shows the world point p.
GetWorldMouse(i, p) ==
    /\ panic = "none"
    /\ LET mouse == Project(animations[i], p, screen_width, screen_height)
       IN  last' = [NoOp EXCEPT !.op = "get_world_mouse", !.who = i,
                     !.mouse = <<p, screen_to_world(animations[i], mouse,
                                                    screen_width, screen_height)>>]
    /\ UNCHANGED <<DEFAULT_FONT, animations, screen, gl_camera, panic, new_calls,
                   hist>>
    /\ UNCHANGED graphVars
    /\ UNCHANGED uiVars

\* The window is resized by the user between two calls.
ResizeWindow(w, h) ==
    /\ panic = "none"
    /\ screen # <<w, h>>
    /\ screen' = <<w, h>>
    /\ last' = [NoOp EXCEPT !.op = "resize_window"]
    /\ UNCHANGED <<DEFAULT_FONT, animations, gl_camera, panic, new_calls, hist>>
    /\ UNCHANGED graphVars
    /\ UNCHANGED uiVars

Next ==
    \/ \E s \in StartSizes : New(s[1], s[2])
    \/ \E i \in DOMAIN animations : DisableAutoResize(i)
    \/ \E i \in DOMAIN animations : SetCamera(i)
    \/ \E i \in DOMAIN animations : SetDefaultCamera(i)
    \/ \E i \in DOMAIN animations : DrawFrame(i)
    \/ \E i \in DOMAIN animations :
          \E p \in CanvasPoints(animations[i]) : GetWorldMouse(i, p)
    \/ \E w \in Windows : ResizeWindow(w[1], w[2])

Spec == Init /\ [][Next]_vars

\* The same program in a window that keeps the size it has at start.
NextFixedWindow ==
    \/ \E s \in StartSizes : New(s[1], s[2])
    \/ \E i \in DOMAIN animations : DisableAutoResize(i)
    \/ \E i \in DOMAIN animations : SetCamera(i)
    \/ \E i \in DOMAIN animations : SetDefaultCamera(i)
    \/ \E i \in DOMAIN animations : DrawFrame(i)
    \/ \E i \in DOMAIN animations :
          \E p \in CanvasPoints(animations[i]) : GetWorldMouse(i, p)

SpecFixedWindow == Init /\ [][NextFixedWindow]_vars

\* ------------------------------------------------------------------------
\* Shorthands for the claims.
Who == animations[last.who]
Pre == last.pre[1]
Acted(op) == last.op = op /\ last.who \in DOMAIN animations
\* a with render_state set aside: what a camera call may not change otherwise.
Sizes(a) == [a EXCEPT !.render_state = ScreenRendering]
Times(n, d, x) == QMul(Q(n, d), x)
\* The logical size of a is n/d of its draw_size, in both dimensions.
LogicalIs(n, d, a) ==
    /\ a.width = Times(n, d, a.draw_size[1])
    /\ a.height = Times(n, d, a.draw_size[2])

\* ---------------------------------------------------------------- C1
\* C1: draw_frame panics exactly when the most recent camera call on the
\* Animation was set_camera; with no camera call yet, or after
\* set_default_camera, it succeeds and leaves render_state ScreenRendering.
\* set_camera always gives CameraRendering and set_default_camera always gives
\* ScreenRendering.
C1_DrawFrameGuard ==
    /\ \A i \in DOMAIN animations :
          animations[i].render_state = CameraRendering
              <=> hist[i].camera_call = "set_camera"
    /\ Acted("draw_frame") =>
          /\ panic = "draw_frame" <=> hist[last.who].camera_call = "set_camera"
          /\ panic \in {"none", "draw_frame"}
          /\ panic = "none" => Who.render_state = ScreenRendering
    /\ Acted("set_camera") => Who.render_state = CameraRendering
    /\ Acted("set_default_camera") => Who.render_state = ScreenRendering

\* A draw_frame that panicked right after set_camera.
C1_Witness ==
    /\ Acted("draw_frame")
    /\ panic = "draw_frame"
    /\ hist[last.who].camera_call = "set_camera"

\* ---------------------------------------------------------------- C2
\* In the band 0.5*S <= L <= 1.5*S, both bounds included.
InBandInclusive(a) ==
    /\ QLe(Times(1, 2, a.draw_size[1]), a.width)
    /\ QLe(a.width, Times(3, 2, a.draw_size[1]))
    /\ QLe(Times(1, 2, a.draw_size[2]), a.height)
    /\ QLe(a.height, Times(3, 2, a.draw_size[2]))

\* In the band 0.5*S < L <= 1.5*S.
InBand(a) ==
    /\ QLt(Times(1, 2, a.draw_size[1]), a.width)
    /\ QLe(a.width, Times(3, 2, a.draw_size[1]))
    /\ QLt(Times(1, 2, a.draw_size[2]), a.height)
    /\ QLe(a.height, Times(3, 2, a.draw_size[2]))

\* C2 as stated: with auto_resize on, a set_camera call with
\* 0.5*S <= L <= 1.5*S (bounds included) reallocates nothing.
C2_Original ==
    (Acted("set_camera") /\ Pre.auto_resize /\ InBandInclusive(Pre)) =>
        /\ last.branch = "none"
        /\ Sizes(Who) = Sizes(Pre)

\* C2, amended: with auto_resize on, a set_camera call with
\* 0.5*S < L <= 1.5*S (lower bound excluded) reallocates nothing: width, height,
\* render target and camera are unchanged, and a further set_camera call
\* changes nothing at all.
C2_NoReallocInBand ==
    (Acted("set_camera") /\ Pre.auto_resize /\ InBand(Pre)) =>
        /\ last.branch = "none"
        /\ Sizes(Who) = Sizes(Pre)
        /\ set_camera(Who) = Who

\* A set_camera call exactly on the upper bound L = 1.5*S.
C2_Witness ==
    /\ Acted("set_camera")
    /\ Pre.auto_resize
    /\ LogicalIs(3, 2, Pre)

\* ---------------------------------------------------------------- C3
\* C3 as stated: with auto_resize on, set_camera at L = 1.4*S reallocates to
\* 1.4*S*0.5.
C3_Original ==
    (Acted("set_camera") /\ Pre.auto_resize /\ LogicalIs(7, 5, Pre)) =>
        /\ last.branch = "upper"
        /\ LogicalIs(7, 10, Who)

\* C3, amended: with auto_resize on, set_camera at L = 1.4*S reallocates
\* nothing and the logical size stays 1.4*S; a reallocation to L*0.5 happens
\* only when L exceeds 1.5*S in a dimension.
C3_NoGrowthAtOnePointFour ==
    /\ (Acted("set_camera") /\ Pre.auto_resize /\ LogicalIs(7, 5, Pre)) =>
          /\ last.branch = "none"
          /\ Sizes(Who) = Sizes(Pre)
          /\ LogicalIs(7, 5, Who)
    /\ (Acted("set_camera") /\ last.branch = "upper") =>
          /\ \/ QGt(Pre.width, Times(3, 2, Pre.draw_size[1]))
             \/ QGt(Pre.height, Times(3, 2, Pre.draw_size[2]))
          /\ Who.width = Times(1, 2, Pre.width)
          /\ Who.height = Times(1, 2, Pre.height)

\* A set_camera call made at L = 1.4*S.
C3_Witness ==
    /\ Acted("set_camera")
    /\ Pre.auto_resize
    /\ LogicalIs(7, 5, Pre)

\* ---------------------------------------------------------------- C4
\* The render target and camera allocated for the size (w, h).
AllocatedAt(a, w, h) ==
    /\ a.width = w
    /\ a.height = h
    /\ a.render_target = [width |-> w[1] \div w[2], height |-> h[1] \div h[2]]
    /\ a.camera.rect = <<w, h>>
    /\ a.camera.render_target = a.render_target

\* C4: with auto_resize on, one set_camera call reallocates at (0.5*width,
\* 0.5*height) if width > 1.5*S.x or height > 1.5*S.y; otherwise at (2*width,
\* 2*height) if width <= 0.5*S.x or height <= 0.5*S.y (L = 0.4*S gives 0.8*S);
\* otherwise it reallocates nothing.  It makes one step only, and the first
\* test wins when a width above 1.5*S.x meets a height at most 0.5*S.y.
C4_ResizeDecision ==
    /\ LET a == [NewAnimation(F(4), F(1), F(4), F(1)) EXCEPT
                    !.draw_size = <<F(2), F(2)>>]
       IN  /\ ResizeBranch(a) = "upper"
           /\ AllocatedAt(set_camera(a), F(2), Q(1, 2))
    /\ (Acted("set_camera") /\ Pre.auto_resize) =>
        /\ Who.draw_size = Pre.draw_size
        /\ Who.scale = Pre.scale
        /\ IF \/ QGt(Pre.width, Times(3, 2, Pre.draw_size[1]))
              \/ QGt(Pre.height, Times(3, 2, Pre.draw_size[2]))
           THEN /\ last.branch = "upper"
                /\ AllocatedAt(Who, Times(1, 2, Pre.width), Times(1, 2, Pre.height))
           ELSE IF \/ QLe(Pre.width, Times(1, 2, Pre.draw_size[1]))
                   \/ QLe(Pre.height, Times(1, 2, Pre.draw_size[2]))
           THEN /\ last.branch = "lower"
                /\ AllocatedAt(Who, Times(2, 1, Pre.width), Times(2, 1, Pre.height))
           ELSE /\ last.branch = "none"
                /\ Sizes(Who) = Sizes(Pre)
        /\ LogicalIs(2, 5, Pre) => LogicalIs(4, 5, Who)

\* A set_camera call at L = 0.4*S that reallocated at 0.8*S.
C4_Witness ==
    /\ Acted("set_camera")
    /\ Pre.auto_resize
    /\ LogicalIs(2, 5, Pre)
    /\ last.branch = "lower"
    /\ LogicalIs(4, 5, Who)

\* ---------------------------------------------------------------- C5
\* C5: once auto_resize is false, no step reallocates the render target or
\* the camera or changes width or height, and auto_resize stays false.
C5_NoReallocAfterDisable ==
    [][\A i \in DOMAIN animations :
          ~animations[i].auto_resize =>
              /\ i \in DOMAIN animations'
              /\ ~animations'[i].auto_resize
              /\ animations'[i].width = animations[i].width
              /\ animations'[i].height = animations[i].height
              /\ animations'[i].render_target = animations[i].render_target
              /\ animations'[i].camera = animations[i].camera
              /\ (last'.op = "set_camera" /\ last'.who = i) => last'.branch = "none"]_vars

\* A set_camera call with auto_resize off at a logical size outside the band,
\* where an enabled auto_resize would have reallocated.
C5_Witness ==
    /\ Acted("set_camera")
    /\ ~Pre.auto_resize
    /\ ~InBand(Pre)
    /\ last.branch = "none"

\* ---------------------------------------------------------------- C6
\* C6 as stated: while auto_resize is false, draw_size equals the start size
\* given to new().
C6_Original ==
    \A i \in DOMAIN animations :
        ~animations[i].auto_resize => animations[i].draw_size = hist[i].start

\* C6, amended: while auto_resize is false, width and height never change,
\* and draw_size is changed by successful draw_frame calls only, each of which
\* sets it to (width*scale, height*scale) for the scale of the current window.
C6_DrawSizeFollowsBlit ==
    [][\A i \in DOMAIN animations :
          ~animations[i].auto_resize =>
              LET a == animations[i]
                  b == animations'[i]
                  drawn == last'.op = "draw_frame" /\ last'.who = i /\ panic' = "none"
              IN  /\ b.width = a.width
                  /\ b.height = a.height
                  /\ b.draw_size # a.draw_size => drawn
                  /\ drawn => b.draw_size = <<QMul(a.width, b.scale),
                                              QMul(a.height, b.scale)>>]_vars

\* A successful draw_frame with auto_resize off that left draw_size different
\* from the start size.
C6_Witness ==
    /\ Acted("draw_frame")
    /\ panic = "none"
    /\ ~Who.auto_resize
    /\ Who.draw_size # hist[last.who].start
    /\ Who.width = hist[last.who].start[1]

\* ---------------------------------------------------------------- C7
\* C7: the first Animation::new of a process succeeds and sets DEFAULT_FONT to
\* the font it loaded; every later Animation::new panics, constructs nothing
\* and leaves the font as the first call set it.
C7_FontSetOnce ==
    /\ new_calls = 0 => DEFAULT_FONT = <<>> /\ animations = <<>>
    /\ new_calls >= 1 => DEFAULT_FONT = <<1>> /\ Len(animations) = 1
    /\ new_calls >= 2 <=> panic = "font"
    /\ Acted("new") => new_calls = 1 /\ panic = "none"
    /\ (last.op = "new" /\ new_calls >= 2) => panic = "font"

\* A second Animation::new that panicked with the first font still in place.
C7_Witness ==
    /\ last.op = "new"
    /\ new_calls = 2
    /\ panic = "font"
    /\ DEFAULT_FONT = <<1>>

\* ---------------------------------------------------------------- C8
\* C8: after a successful draw_frame, scale is the smaller of
\* window_width/width and window_height/height for the window and logical
\* size of that call, and it is positive; a 1280x720 canvas in a 1920x1080
\* window has scale 1.5.
C8_ScaleIsMinRatio ==
    /\ (Acted("draw_frame") /\ panic = "none") =>
          LET rx == QDiv(screen_width, Who.width)
              ry == QDiv(screen_height, Who.height)
          IN  /\ Who.scale \in {rx, ry}
              /\ QLe(Who.scale, rx)
              /\ QLe(Who.scale, ry)
              /\ QGt(Who.scale, F(0))
    /\ compute_scale(F(1280), F(720), F(1920), F(1080)) = Q(3, 2)

\* A successful draw_frame in a window wider than the canvas's aspect ratio:
\* the height ratio is the smaller one and is the scale.
C8_Witness ==
    /\ Acted("draw_frame")
    /\ panic = "none"
    /\ QLt(QDiv(screen_height, Who.height), QDiv(screen_width, Who.width))
    /\ Who.scale = QDiv(screen_height, Who.height)

\* ---------------------------------------------------------------- C9
\* C9: whenever get_world_mouse is called, un-projecting the screen position
\* of a world point p inside the canvas returns p.  Checked in a window that
\* never changes its size.
C9_RoundTrip ==
    last.op = "get_world_mouse" => last.mouse[2] = last.mouse[1]

\* ---------------------------------------------------------------- C10
\* C10: a successful draw_frame blits a rectangle of size (width*scale,
\* height*scale), centred in the window with non-negative offsets
\* (W - width*scale)/2 and (H - height*scale)/2, that fits inside the window
\* and fills it exactly in at least one dimension.
C10_Letterbox ==
    (Acted("draw_frame") /\ panic = "none") =>
        LET r == last.blit[1]
            bw == QMul(Who.width, Who.scale)
            bh == QMul(Who.height, Who.scale)
        IN  /\ r.size = <<bw, bh>>
            /\ QAdd(QAdd(r.x, bw), r.x) = screen_width
            /\ QAdd(QAdd(r.y, bh), r.y) = screen_height
            /\ QLe(F(0), r.x)
            /\ QLe(F(0), r.y)
            /\ QLe(bw, screen_width)
            /\ QLe(bh, screen_height)
            /\ bw = screen_width \/ bh = screen_height

\* A successful draw_frame that left bars above and below the canvas.
C10_Witness ==
    /\ Acted("draw_frame")
    /\ panic = "none"
    /\ last.blit[1].x = F(0)
    /\ QGt(last.blit[1].y, F(0))

\* =================================================================== map
\* Largest magnitude of the numbers handed to map.
MaxMap == 2

MapInputs == {F(n) : n \in -MaxMap..MaxMap}

map_without_offset(val, min1, max1, min2, max2) ==
    QMul(QDiv(QSub(val, min1), QSub(max1, min1)), QSub(max2, min2))

\* ((val - min1) / (max1 - min1)) * (max2 - min2) + min2
map(val, min1, max1, min2, max2) ==
    QAdd(QMul(QDiv(QSub(val, min1), QSub(max1, min1)), QSub(max2, min2)), min2)

\* A call of map.  A source range of one point divides by zero (an f32 NaN or
\* infinity) and is left out.
CallMap(val, min1, max1, min2, max2) ==
    /\ min1 # max1
    /\ glast' = [op |-> "map", args |-> <<val, min1, max1, min2, max2>>,
                 result |-> <<map(val, min1, max1, min2, max2)>>]
    /\ UNCHANGED <<graph, draws, panic>>
    /\ UNCHANGED animVars
    /\ UNCHANGED uiVars

InitGraph == Init /\ screen = <<1, 1>>

NextMap ==
    \E val \in MapInputs, min1 \in MapInputs, max1 \in MapInputs,
       min2 \in MapInputs, max2 \in MapInputs :
        CallMap(val, min1, max1, min2, max2)

SpecMap == InitGraph /\ [][NextMap]_vars

QMax(a, b) == IF QLt(a, b) THEN b ELSE a

\* ---------------------------------------------------------------- C11
\* C11: for a < b, map(v, a, b, c, d) is the linear interpolation that sends
\* a to c and b to d; a value inside [a, b] lands inside
\* [min(c,d), max(c,d)]; a value outside [a, b] is not clamped and, when
\* c # d, lands strictly outside [min(c,d), max(c,d)].
C11_MapLinear ==
    (glast.op = "map" /\ QLt(glast.args[2], glast.args[3])) =>
        LET v == glast.args[1]
            a == glast.args[2]
            b == glast.args[3]
            c == glast.args[4]
            d == glast.args[5]
            r == glast.result[1]
            lo == QMin(c, d)
            hi == QMax(c, d)
        IN  /\ QMul(QSub(r, c), QSub(b, a)) = QMul(QSub(v, a), QSub(d, c))
            /\ v = a => r = c
            /\ v = b => r = d
            /\ (QLe(a, v) /\ QLe(v, b)) => (QLe(lo, r) /\ QLe(r, hi))
            /\ ((QLt(v, a) \/ QLt(b, v)) /\ c # d) => (QLt(r, lo) \/ QLt(hi, r))

\* A value beyond the source range was mapped beyond a descending target range.
C11_Witness ==
    /\ glast.op = "map"
    /\ QLt(glast.args[2], glast.args[3])
    /\ QLt(glast.args[3], glast.args[1])
    /\ QLt(glast.args[5], glast.args[4])
    /\ QLt(glast.result[1], glast.args[5])

\* ================================================================= Graph
\* Domain end points are the multiples of 5 up to 10 in magnitude and the
\* whole numbers up to MaxDomain in magnitude.
MaxDomain == 1

DomainEnds == {F(5 * k) : k \in -2..2} \cup {F(n) : n \in -MaxDomain..MaxDomain}

\* Every Range<f32> a caller can write with these end points, the reversed
\* and the empty ones included: <<start, end>>.
Ranges == DomainEnds \X DomainEnds

\* Where the graph is put in the world: <<world_center_pos, world_size>>.
Placements ==
    { <<vec2(F(0), F(0)), vec2(F(4), F(2))>>,
      <<vec2(F(1), F(-1)), vec2(F(2), F(2))>> }

TickSteps == {F(2), F(4), F(5)}

\* GraphEndPointStyle: <<>> is Nothing, <<thickness>> is Arrow { thickness }.
Arrow(thickness) == <<thickness>>
NoEndPoint == <<>>

AxisStyle(step, tick, end_pt) ==
    [tick_step |-> step, tick_style |-> tick, end_point_style |-> end_pt]

\* AxisStyle::default(): tick_step 0.5, TickStyle::Nothing, Arrow { 7. }.
DefaultAxisStyle == AxisStyle(Half, "Nothing", Arrow(F(7)))

DefaultGraphStyle == [x_style |-> DefaultAxisStyle, y_style |-> DefaultAxisStyle]

AxisStyles ==
    {AxisStyle(st, tk[1], tk[2]) :
        st \in TickSteps,
        tk \in {<<"Nothing", NoEndPoint>>, <<"Marker", Arrow(One)>>}}

\* The styles handed to style(): both axes with the same tick_step.
GraphStyles ==
    {gs \in [x_style : AxisStyles, y_style : AxisStyles] :
        gs.x_style.tick_step = gs.y_style.tick_step}

Zero == F(0)

\* Range::contains(&0.): start <= 0 < end.
ContainsZero(r) == QLe(r[1], Zero) /\ QLt(Zero, r[2])

graph_to_world(g, pt) ==
    vec2(map(pt[1], g.x_range[1], g.x_range[2],
             g.world_min_coords[1], g.world_max_coords[1]),
         map(pt[2], g.y_range[1], g.y_range[2],
             g.world_min_coords[2], g.world_max_coords[2]))

AssertRangeReversed(r) == QLt(r[2], r[1])

\* assert!(range.start < range.end)
AssertRange(r) == QLt(r[1], r[2])

ClampsToWorldMinIgnoringEnd(r) == ~ContainsZero(r)

\* !range.contains(&0.) && range.end != 0.
ClampsToWorldMin(r) == ~ContainsZero(r) /\ r[2] # Zero

\* The Graph that Graph::new builds once both asserts have passed.
NewGraph(world_center_pos, world_size, x_range, y_range) ==
    LET lo == vec2(QSub(world_center_pos[1], QDiv(world_size[1], F(2))),
                   QSub(world_center_pos[2], QDiv(world_size[2], F(2))))
        hi == vec2(QAdd(world_center_pos[1], QDiv(world_size[1], F(2))),
                   QAdd(world_center_pos[2], QDiv(world_size[2], F(2))))
        g == [world_center_pos |-> world_center_pos,
              world_size |-> world_size,
              x_range |-> x_range,
              y_range |-> y_range,
              style |-> DefaultGraphStyle,
              world_min_coords |-> lo,
              world_max_coords |-> hi,
              axes_pos |-> vec2(Zero, Zero)]
        zero == graph_to_world(g, vec2(Zero, Zero))
    IN  [g EXCEPT !.axes_pos =
            vec2(IF ClampsToWorldMin(x_range) THEN lo[1] ELSE zero[1],
                 IF ClampsToWorldMin(y_range) THEN lo[2] ELSE zero[2])]

\* Graph::new: either assert panics, or the Graph is returned.
GraphNew(place, x_range, y_range) ==
    /\ panic = "none"
    /\ graph = <<>>
    /\ IF AssertRange(x_range) /\ AssertRange(y_range)
       THEN /\ graph' = <<NewGraph(place[1], place[2], x_range, y_range)>>
            /\ panic' = panic
       ELSE /\ graph' = graph
            /\ panic' = "assert"
    /\ draws' = <<>>
    /\ glast' = [op |-> "Graph::new", args |-> <<place, x_range, y_range>>,
                 result |-> graph']
    /\ UNCHANGED animVars
    /\ UNCHANGED uiVars

\* Graph::style: the same Graph with the style replaced.
Style(style) ==
    /\ panic = "none"
    /\ graph # <<>>
    /\ graph' = <<[graph[1] EXCEPT !.style = style]>>
    /\ draws' = <<>>
    /\ glast' = [op |-> "style", args |-> <<style>>, result |-> graph']
    /\ UNCHANGED panic
    /\ UNCHANGED animVars
    /\ UNCHANGED uiVars

\* One draw call: draw_line, draw_triangle or draw_circle with its points,
\* or what one draw_tick call draws; `site` names the call in plot.rs.
Draw(kind, pts, value, site) ==
    [kind |-> kind, pts |-> pts, value |-> value, site |-> site]

\* f32::round() as usize of a non-negative number: half away from zero.
RoundAsUsize(a) == (2 * a[1] + a[2]) \div (2 * a[2])

IsBoundaryZero(r) == r[1] = Zero \/ r[2] = Zero

\* tick_start of draw_ticks for one axis.
TickStart(r) ==
    IF ContainsZero(r) THEN Zero
    ELSE IF QLt(r[1], Zero) /\ QLt(r[2], Zero) THEN r[2]
    ELSE r[1]

\* num_ticks of draw_ticks for one axis, after `.round() as usize`.
NumTicks(r, tick_step) ==
    RoundAsUsize(IF IsBoundaryZero(r)
                 THEN QAdd(QDiv(QSub(r[2], r[1]), tick_step), One)
                 ELSE QDiv(QSub(r[2], r[1]), tick_step))

\* The values the loop of draw_ticks looks at, in order: for each tick_num
\* its `above`, then its `below`.
TickCandidates(r, tick_step) ==
    [i \in 1..(2 * NumTicks(r, tick_step)) |->
        LET tick_num == F((i - 1) \div 2)
        IN  IF i % 2 = 1
            THEN [side |-> "above",
                  value |-> QAdd(TickStart(r), QMul(tick_num, tick_step))]
            ELSE [side |-> "below",
                  value |-> QSub(TickStart(r), QMul(tick_num, tick_step))]]

TickPassesKeepingZero(r, c) ==
    IF c.side = "above" THEN QLe(c.value, r[2]) ELSE QLe(r[1], c.value)

\* The two `if`s of the loop body: inside the range on its side, and not 0
\* unless 0 is an end of the range.
TickPasses(r, c) ==
    /\ IF c.side = "above" THEN QLe(c.value, r[2]) ELSE QLe(r[1], c.value)
    /\ IsBoundaryZero(r) \/ c.value # Zero

\* The draw_tick calls of one axis that draw something (draw_tick with
\* TickStyle::Nothing draws nothing).
AxisTicks(g, axis) ==
    LET r == IF axis = "x" THEN g.x_range ELSE g.y_range
        st == IF axis = "x" THEN g.style.x_style ELSE g.style.y_style
        passed == SelectSeq(TickCandidates(r, st.tick_step),
                            LAMBDA c : TickPasses(r, c))
    IN  IF st.tick_style = "Nothing" THEN <<>>
        ELSE [i \in 1..Len(passed) |->
                Draw("tick",
                     <<graph_to_world(g, IF axis = "x"
                                         THEN vec2(passed[i].value, Zero)
                                         ELSE vec2(Zero, passed[i].value))>>,
                     passed[i].value, axis)]

draw_ticks(g) ==
    IF g.style.x_style.tick_style = "Nothing"
       /\ g.style.y_style.tick_style = "Nothing"
    THEN <<>>
    ELSE AxisTicks(g, "x") \o AxisTicks(g, "y")

\* num_ticks of each axis as the loops of draw_ticks use it; <<>> when
\* draw_ticks returns before computing it.
TickCounts(g) ==
    IF g.style.x_style.tick_style = "Nothing"
       /\ g.style.y_style.tick_style = "Nothing"
    THEN <<>>
    ELSE <<NumTicks(g.x_range, g.style.x_style.tick_step),
           NumTicks(g.y_range, g.style.y_style.tick_step)>>

draw_axes_end_pts(g) ==
    LET zero_position == graph_to_world(g, vec2(Zero, Zero))
        lo == g.world_min_coords
        hi == g.world_max_coords
        xe == g.style.x_style.end_point_style
        ye == g.style.y_style.end_point_style
        Tri(a, b, c, site) == <<Draw("triangle", <<a, b, c>>, Zero, site)>>
        XArrows(t) ==
            LET min_x == QSub(lo[1], t)
                max_x == QAdd(hi[1], t)
                y == zero_position[2]
            IN  (IF lo[1] # zero_position[1]
                 THEN Tri(vec2(min_x, y),
                          vec2(QAdd(min_x, t), QAdd(y, t)),
                          vec2(QAdd(min_x, t), QSub(y, t)), "x_min")
                 ELSE <<>>)
                \o
                (IF hi[1] # zero_position[1]
                 THEN Tri(vec2(max_x, y),
                          vec2(QSub(max_x, t), QAdd(y, t)),
                          vec2(QSub(max_x, t), QSub(y, t)), "x_max")
                 ELSE <<>>)
        YArrows(t) ==
            LET min_y == QSub(lo[2], t)
                max_y == QAdd(hi[2], t)
                x == zero_position[1]
            IN  (IF lo[2] # zero_position[2]
                 THEN Tri(vec2(x, min_y),
                          vec2(QAdd(x, t), QAdd(min_y, t)),
                          vec2(QSub(x, t), QAdd(min_y, t)), "y_min")
                 ELSE <<>>)
                \o
                (IF hi[1] # zero_position[2]
                 THEN Tri(vec2(x, max_y),
                          vec2(QAdd(x, t), QSub(max_y, t)),
                          vec2(QSub(x, t), QSub(max_y, t)), "y_max")
                 ELSE <<>>)
    IN  (IF xe = NoEndPoint THEN <<>> ELSE XArrows(xe[1]))
        \o (IF ye = NoEndPoint THEN <<>> ELSE YArrows(ye[1]))

draw_axes(g) ==
    << Draw("line", <<vec2(g.world_min_coords[1], g.axes_pos[2]),
                      vec2(g.world_max_coords[1], g.axes_pos[2])>>,
            Zero, "x_axis"),
       Draw("line", <<vec2(g.axes_pos[1], g.world_min_coords[2]),
                      vec2(g.axes_pos[1], g.world_max_coords[2])>>,
            Zero, "y_axis") >>
    \o draw_axes_end_pts(g) \o draw_ticks(g)

DrawAxes ==
    /\ panic = "none"
    /\ graph # <<>>
    /\ draws' = draw_axes(graph[1])
    /\ glast' = [op |-> "draw_axes", args |-> <<>>,
                 result |-> TickCounts(graph[1])]
    /\ UNCHANGED <<graph, panic>>
    /\ UNCHANGED animVars
    /\ UNCHANGED uiVars

NextAxes ==
    \/ \E place \in Placements, x_range \in Ranges, y_range \in Ranges :
            GraphNew(place, x_range, y_range)
    \/ \E style \in GraphStyles : Style(style)
    \/ DrawAxes

SpecAxes == InitGraph /\ [][NextAxes]_vars

\* Shorthands of the Graph claims.
G == graph[1]
GraphCalled(op) == glast.op = op /\ panic = "none" /\ graph # <<>>
RangeOf(g, axis) == IF axis = 1 THEN g.x_range ELSE g.y_range

\* ---------------------------------------------------------------- C12
\* C12: Graph::new panics, and produces no Graph, exactly when
\* x_range.start >= x_range.end or y_range.start >= y_range.end; otherwise
\* it returns a Graph, so every Graph has domains of non-zero length.
C12_NewValidatesRanges ==
    /\ glast.op = "Graph::new" =>
        LET xr == glast.args[2]
            yr == glast.args[3]
            bad == QLe(xr[2], xr[1]) \/ QLe(yr[2], yr[1])
        IN  /\ bad => (panic = "assert" /\ glast.result = <<>> /\ graph = <<>>)
            /\ ~bad => (panic = "none" /\ glast.result # <<>>
                        /\ graph = glast.result
                        /\ G.x_range = xr /\ G.y_range = yr)
    /\ graph # <<>> =>
        (QLt(G.x_range[1], G.x_range[2]) /\ QLt(G.y_range[1], G.y_range[2]))

\* Graph::new panicked on an empty y range although the x range was valid.
C12_Witness ==
    /\ glast.op = "Graph::new"
    /\ panic = "assert"
    /\ QLt(glast.args[2][1], glast.args[2][2])
    /\ glast.args[3][1] = glast.args[3][2]

\* ---------------------------------------------------------------- C13
\* C13: on each axis on its own, axes_pos is world_min when the domain does
\* not contain 0 (start <= 0 < end is false) and its end is not 0, and the
\* world position of 0 otherwise; style() and draw_axes leave it so.
C13_OriginClamp ==
    graph # <<>> =>
        \A axis \in {1, 2} :
            LET r == RangeOf(G, axis)
                lo == G.world_min_coords[axis]
                hi == G.world_max_coords[axis]
                inside == QLe(r[1], Zero) /\ QLt(Zero, r[2])
                at0 == QAdd(lo, QDiv(QMul(QSub(Zero, r[1]), QSub(hi, lo)),
                                     QSub(r[2], r[1])))
            IN  G.axes_pos[axis] =
                    IF ~inside /\ r[2] # Zero THEN lo ELSE at0

\* A Graph with x domain [1,5] and y domain [-5,5], after style() and
\* draw_axes: the origin is at world_min in x and at the middle in y.
C13_Witness ==
    /\ GraphCalled("draw_axes")
    /\ G.style # DefaultGraphStyle
    /\ G.x_range = <<F(1), F(5)>>
    /\ G.y_range = <<F(-5), F(5)>>
    /\ G.axes_pos = vec2(G.world_min_coords[1], G.world_center_pos[2])

\* The ticks drawn on one axis ("x" or "y") by the last draw_axes, the number
\* of them at a value, and the style of that axis.
TicksOn(axis) == SelectSeq(draws, LAMBDA d : d.kind = "tick" /\ d.site = axis)
TicksAt(axis, n) ==
    Cardinality({i \in 1..Len(TicksOn(axis)) : TicksOn(axis)[i].value = F(n)})
StyleOf(g, axis) == IF axis = "x" THEN g.style.x_style ELSE g.style.y_style
DomainOf(g, axis) == IF axis = "x" THEN g.x_range ELSE g.y_range
TickedAxis(axis, start, end, step) ==
    /\ GraphCalled("draw_axes")
    /\ DomainOf(G, axis) = <<F(start), F(end)>>
    /\ StyleOf(G, axis).tick_step = F(step)
    /\ StyleOf(G, axis).tick_style # "Nothing"

\* ---------------------------------------------------------------- C14
\* C14: for an axis with domain [0,10], tick_step 2 and a tick style other
\* than Nothing, draw_axes draws exactly 6 ticks on that axis, at 0, 2, 4,
\* 6, 8 and 10, each value once.
C14_TicksZeroBoundary ==
    \A axis \in {"x", "y"} :
        TickedAxis(axis, 0, 10, 2) =>
            /\ Len(TicksOn(axis)) = 6
            /\ \A n \in {0, 2, 4, 6, 8, 10} : TicksAt(axis, n) = 1

\* ---------------------------------------------------------------- C15
\* C15 as stated: for an axis with domain [-10,10], tick_step 5 and a tick
\* style other than Nothing, draw_axes draws exactly 5 ticks on that axis,
\* at 0, +5, -5, +10 and -10, the one at 0 once.
C15_Original ==
    \A axis \in {"x", "y"} :
        TickedAxis(axis, -10, 10, 5) =>
            /\ Len(TicksOn(axis)) = 5
            /\ \A n \in {-10, -5, 0, 5, 10} : TicksAt(axis, n) = 1

\* C15 amended: for such an axis draw_axes draws exactly 4 ticks, at +5, -5,
\* +10 and -10, each once, and no tick at 0.
C15_TicksZeroInterior ==
    \A axis \in {"x", "y"} :
        TickedAxis(axis, -10, 10, 5) =>
            /\ Len(TicksOn(axis)) = 4
            /\ \A n \in {-10, -5, 5, 10} : TicksAt(axis, n) = 1
            /\ TicksAt(axis, 0) = 0

\* draw_axes drew the ticks of an x axis with domain [-10,10] and step 5.
C15_Witness ==
    /\ TickedAxis("x", -10, 10, 5)
    /\ Len(TicksOn("x")) > 0

\* ---------------------------------------------------------------- C16
\* C16: for every valid domain and tick_step > 0 the number n of tick
\* indices 0..n-1 that draw_ticks goes through on an axis is
\* ceil((end - start) / tick_step), plus one when start or end is 0.
Ceil(a) == -((-a[1]) \div a[2])

C16_TickCountIsCeil ==
    (GraphCalled("draw_axes") /\ glast.result # <<>>) =>
        \A i \in {1, 2} :
            LET axis == IF i = 1 THEN "x" ELSE "y"
                r == DomainOf(G, axis)
                step == StyleOf(G, axis).tick_step
            IN  glast.result[i] =
                    Ceil(QDiv(QSub(r[2], r[1]), step))
                    + (IF r[1] = Zero \/ r[2] = Zero THEN 1 ELSE 0)

\* ---------------------------------------------------------------- C17
\* C17: for each axis whose end_point_style is Arrow, draw_axes draws an
\* arrowhead at an extremity (x-min, x-max, y-min, y-max) exactly when the
\* world position of the domain origin along that axis differs from that
\* extremity's world coordinate; with Nothing it draws no arrowhead.
ArrowsAt(site) ==
    Cardinality({i \in 1..Len(draws) :
                    draws[i].kind = "triangle" /\ draws[i].site = site})

C17_ArrowAtEachFreeEnd ==
    GraphCalled("draw_axes") =>
        LET zero == graph_to_world(G, vec2(Zero, Zero))
            Expected(axis, i, extremity) ==
                IF StyleOf(G, axis).end_point_style # NoEndPoint
                   /\ zero[i] # extremity[i]
                THEN 1 ELSE 0
        IN  /\ ArrowsAt("x_min") = Expected("x", 1, G.world_min_coords)
            /\ ArrowsAt("x_max") = Expected("x", 1, G.world_max_coords)
            /\ ArrowsAt("y_min") = Expected("y", 2, G.world_min_coords)
            /\ ArrowsAt("y_max") = Expected("y", 2, G.world_max_coords)

\* ============================================================== plotting
\* Longest slice of points handed to plot_line_vec.
MaxPts == 3

\* Graph-space points: for the domain [0,2] x [-1,1] one inside, one on a
\* corner, one outside to the right and one outside to the left.
PlotPoints ==
    { vec2(F(1), F(0)), vec2(F(2), F(1)), vec2(F(3), F(0)), vec2(F(-1), F(0)) }

RECURSIVE SeqsUpTo(_, _)
SeqsUpTo(S, n) ==
    IF n = 0 THEN {<<>>}
    ELSE LET shorter == SeqsUpTo(S, n - 1)
         IN  shorter \cup {Append(q, e) : q \in shorter, e \in S}

PlotSlices == SeqsUpTo(PlotPoints, MaxPts)

\* The domains of the plotted graphs: <<x_range, y_range>>.
PlotDomains ==
    { <<<<F(0), F(2)>>, <<F(-1), F(1)>>>>,
      <<<<F(-1), F(5)>>, <<F(-5), F(5)>>>> }

world_pt_in_world_bb_strict(g, pt) ==
    /\ QLt(g.world_min_coords[1], pt[1])
    /\ QLt(g.world_min_coords[2], pt[2])
    /\ QLt(pt[1], g.world_max_coords[1])
    /\ QLt(pt[2], g.world_max_coords[2])

world_pt_in_world_bb(g, pt) ==
    /\ QLe(g.world_min_coords[1], pt[1])
    /\ QLe(g.world_min_coords[2], pt[2])
    /\ QLe(pt[1], g.world_max_coords[1])
    /\ QLe(pt[2], g.world_max_coords[2])

plot_line_world_needs_both(g, pt_a, pt_b) ==
    IF ~world_pt_in_world_bb(g, pt_a) \/ ~world_pt_in_world_bb(g, pt_b)
    THEN <<>>
    ELSE <<Draw("line", <<pt_a, pt_b>>, Zero, "plot_line_world")>>

plot_line_world(g, pt_a, pt_b) ==
    IF ~world_pt_in_world_bb(g, pt_a) /\ ~world_pt_in_world_bb(g, pt_b)
    THEN <<>>
    ELSE <<Draw("line", <<pt_a, pt_b>>, Zero, "plot_line_world")>>

\* pts.windows(2).for_each(..), from the window that starts at index i.
RECURSIVE PlotWindows(_, _, _)
PlotWindows(g, pts, i) ==
    IF i + 1 > Len(pts) THEN <<>>
    ELSE plot_line_world(g, graph_to_world(g, pts[i]),
                         graph_to_world(g, pts[i + 1]))
         \o PlotWindows(g, pts, i + 1)

plot_line_vec(g, pts) == PlotWindows(g, pts, 1)

plot_pt_vec(g, pt) ==
    LET w == graph_to_world(g, pt)
    IN  IF ~world_pt_in_world_bb(g, w) THEN <<>>
        ELSE <<Draw("circle", <<w>>, Zero, "plot_pt_vec")>>

plot_pt_xy(g, x, y) ==
    LET w == graph_to_world(g, vec2(x, y))
    IN  IF ~world_pt_in_world_bb(g, w) THEN <<>>
        ELSE <<Draw("circle", <<w>>, Zero, "plot_pt_xy")>>

PlotLineVec(pts) ==
    /\ panic = "none"
    /\ graph # <<>>
    /\ draws' = plot_line_vec(graph[1], pts)
    /\ glast' = [op |-> "plot_line_vec", args |-> <<pts>>, result |-> <<>>]
    /\ UNCHANGED <<graph, panic>>
    /\ UNCHANGED animVars
    /\ UNCHANGED uiVars

PlotPtVec(pt) ==
    /\ panic = "none"
    /\ graph # <<>>
    /\ draws' = plot_pt_vec(graph[1], pt)
    /\ glast' = [op |-> "plot_pt_vec", args |-> <<pt>>, result |-> <<>>]
    /\ UNCHANGED <<graph, panic>>
    /\ UNCHANGED animVars
    /\ UNCHANGED uiVars

PlotPtXy(x, y) ==
    /\ panic = "none"
    /\ graph # <<>>
    /\ draws' = plot_pt_xy(graph[1], x, y)
    /\ glast' = [op |-> "plot_pt_xy", args |-> <<x, y>>, result |-> <<>>]
    /\ UNCHANGED <<graph, panic>>
    /\ UNCHANGED animVars
    /\ UNCHANGED uiVars

NextPlot ==
    \/ \E place \in Placements, d \in PlotDomains : GraphNew(place, d[1], d[2])
    \/ \E pts \in PlotSlices : PlotLineVec(pts)
    \/ \E pt \in PlotPoints : PlotPtVec(pt)
    \/ \E pt \in PlotPoints : PlotPtXy(pt[1], pt[2])

SpecPlot == InitGraph /\ [][NextPlot]_vars

\* Shorthands of the plotting claims: the inclusive box written out, and the
\* number of draw calls equal to one call.
InBox(w) ==
    /\ QLe(G.world_min_coords[1], w[1]) /\ QLe(w[1], G.world_max_coords[1])
    /\ QLe(G.world_min_coords[2], w[2]) /\ QLe(w[2], G.world_max_coords[2])
DrawsOf(kind, pts) ==
    Cardinality({i \in 1..Len(draws) :
                    draws[i].kind = kind /\ draws[i].pts = pts})

\* ---------------------------------------------------------------- C18
\* C18: plot_line_vec over p0..pn draws nothing for a consecutive pair whose
\* mapped end points are both outside the inclusive box [world_min,
\* world_max] and exactly one draw_line between the two raw mapped end
\* points for a pair with at least one of them inside; so it makes at most
\* n draw calls, and none for fewer than 2 points.
C18_LinePolicy ==
    GraphCalled("plot_line_vec") =>
        LET pts == glast.args[1]
            W(i) == graph_to_world(G, pts[i])
            Seg(i) == <<W(i), W(i + 1)>>
            pairs == 1..(Len(pts) - 1)
            drawn == {i \in pairs : InBox(W(i)) \/ InBox(W(i + 1))}
        IN  /\ Len(draws) = Cardinality(drawn)
            /\ \A k \in 1..Len(draws) :
                    /\ draws[k].kind = "line"
                    /\ \E i \in drawn : draws[k].pts = Seg(i)
            /\ \A i \in drawn :
                    DrawsOf("line", Seg(i)) =
                        Cardinality({j \in drawn : Seg(j) = Seg(i)})
            /\ Len(draws) <= Cardinality(pairs)
            /\ Len(pts) < 2 => draws = <<>>

\* Three points: inside, outside, outside.  The first pair is drawn with its
\* outside end unclipped, the second pair is not drawn.
C18_Witness ==
    /\ GraphCalled("plot_line_vec")
    /\ Len(glast.args[1]) = 3
    /\ InBox(graph_to_world(G, glast.args[1][1]))
    /\ ~InBox(graph_to_world(G, glast.args[1][2]))
    /\ ~InBox(graph_to_world(G, glast.args[1][3]))
    /\ Len(draws) = 1
    /\ draws[1].pts = <<graph_to_world(G, glast.args[1][1]),
                        graph_to_world(G, glast.args[1][2])>>

\* ---------------------------------------------------------------- C19
\* C19: plot_pt_vec and plot_pt_xy draw exactly one circle, centred at
\* graph_to_world(pt), when the mapped point is inside the box [world_min,
\* world_max] with its boundary, and nothing otherwise; neither panics.
C19_PointPolicy ==
    /\ glast.op \in {"plot_pt_vec", "plot_pt_xy"} => panic = "none"
    /\ (GraphCalled("plot_pt_vec") \/ GraphCalled("plot_pt_xy")) =>
        LET pt == IF glast.op = "plot_pt_vec" THEN glast.args[1]
                  ELSE vec2(glast.args[1], glast.args[2])
            w == graph_to_world(G, pt)
        IN  IF InBox(w)
            THEN /\ Len(draws) = 1
                 /\ draws[1].kind = "circle"
                 /\ draws[1].pts = <<w>>
            ELSE draws = <<>>

\* A point that maps onto a corner of the box was drawn by plot_pt_xy.
C19_Witness ==
    /\ GraphCalled("plot_pt_xy")
    /\ graph_to_world(G, vec2(glast.args[1], glast.args[2])) = G.world_max_coords
    /\ Len(draws) = 1

\* ========================================================= the frame loop
\* One Animation in a window that keeps its size, driven as the examples
\* drive it: new once, then forever set_camera; set_default_camera;
\* draw_frame.  The loop never stops, which is the fairness of SpecFrames.
NextFrames ==
    \/ /\ animations = <<>>
       /\ \E s \in StartSizes : New(s[1], s[2])
    \/ /\ last.op \in {"new", "draw_frame"}
       /\ animations # <<>>
       /\ SetCamera(1)
    \/ /\ last.op = "set_camera"
       /\ SetDefaultCamera(1)
    \/ /\ last.op = "set_default_camera"
       /\ DrawFrame(1)

SpecFrames == Init /\ [][NextFrames]_vars /\ WF_vars(NextFrames)

\* ---------------------------------------------------------------- C20
\* C20: with auto_resize on and a window that keeps its size, the frame loop
\* set_camera; set_default_camera; draw_frame reaches, after finitely many
\* frames, a state from which no set_camera reallocates the render target,
\* the logical size no longer changes and the scale stays in [2/3, 2).
Settled ==
    /\ animations # <<>>
    /\ panic = "none"
    /\ last.op = "set_camera" => last.branch = "none"
    /\ Sizes(animations[1]) = Sizes(set_camera(animations[1]))
    /\ QLe(Q(2, 3), animations[1].scale)
    /\ QLt(animations[1].scale, F(2))

C20_NoThrashing == <>[]Settled

\* A set_camera that left alone a canvas which an earlier frame had
\* reallocated away from its start size.
C20_Witness ==
    /\ Acted("set_camera")
    /\ last.branch = "none"
    /\ <<Who.width, Who.height>> # hist[1].start
    /\ Settled

\* ---------------------------------------------------------------- C21
\* C21: on each axis of every Graph, axes_pos is world_max when both end
\* points of the domain are negative (0 is above the domain), world_min when
\* both are positive (0 is below it), and in every case inside the box
\* [world_min, world_max].
C21_ClampToNearestEdge ==
    graph # <<>> =>
        \A axis \in {1, 2} :
            LET r == RangeOf(G, axis)
                lo == G.world_min_coords[axis]
                hi == G.world_max_coords[axis]
            IN  /\ (QLt(r[1], Zero) /\ QLt(r[2], Zero)) => G.axes_pos[axis] = hi
                /\ (QLt(Zero, r[1]) /\ QLt(Zero, r[2])) => G.axes_pos[axis] = lo
                /\ QLe(lo, G.axes_pos[axis]) /\ QLe(G.axes_pos[axis], hi)

\* ---------------------------------------------------------------- C22
\* C22: the tick start point of an axis is 0 when the domain straddles zero
\* and otherwise the end point of the domain nearer to zero; so it is 0 for
\* [-5,0] as it is for [0,5].
QAbs(a) == IF QLt(a, Zero) THEN QSub(Zero, a) ELSE a

C22_TickStartNearestZero ==
    (GraphCalled("draw_axes") /\ glast.result # <<>>) =>
        \A axis \in {"x", "y"} :
            LET r == DomainOf(G, axis)
            IN  TickStart(r) =
                    IF QLt(r[1], Zero) /\ QLt(Zero, r[2]) THEN Zero
                    ELSE IF QLe(QAbs(r[1]), QAbs(r[2])) THEN r[1]
                    ELSE r[2]

\* ---------------------------------------------------------------- C23
\* C23: every Animation made by new(w, h) keeps, under any window sizes,
\* width/height = w/h and width/draw_size.x = height/draw_size.y; so both
\* dimensions take the same side of each hysteresis test, and the size
\* draw_frame blits at, (width*scale, height*scale), is (w*k, h*k) for
\* k = min(W/w, H/h): it depends on the window and on w/h only.
C23_AspectRatio ==
    \A i \in DOMAIN animations :
        LET a == animations[i]
            w == hist[i].start[1]
            h == hist[i].start[2]
            k == QMin(QDiv(screen_width, w), QDiv(screen_height, h))
        IN  /\ QMul(a.width, h) = QMul(a.height, w)
            /\ QMul(a.width, a.draw_size[2]) = QMul(a.height, a.draw_size[1])
            /\ QLt(Times(3, 2, a.draw_size[1]), a.width)
                   <=> QLt(Times(3, 2, a.draw_size[2]), a.height)
            /\ QLe(a.width, Times(1, 2, a.draw_size[1]))
                   <=> QLe(a.height, Times(1, 2, a.draw_size[2]))
            /\ (Acted("draw_frame") /\ panic = "none" /\ last.who = i) =>
                   /\ a.draw_size = vec2(QMul(w, k), QMul(h, k))
                   /\ last.blit[1].size = a.draw_size
                   /\ a.draw_size = vec2(QMul(a.width, a.scale),
                                         QMul(a.height, a.scale))

\* A draw_frame of a canvas that is not square and that set_camera has
\* reallocated away from its start size.
C23_Witness ==
    /\ Acted("draw_frame")
    /\ panic = "none"
    /\ hist[last.who].start[1] # hist[last.who].start[2]
    /\ Who.width # hist[last.who].start[1]

\* ================================================================ Button
\* ButtonShape, as one record shape for both variants.
Circle(radius) ==
    [kind |-> "Circle", radius |-> radius, width |-> Zero, height |-> Zero]
Rectangle(width, height) ==
    [kind |-> "Rectangle", radius |-> Zero, width |-> width, height |-> height]

ButtonShapes == {Circle(F(2)), Rectangle(F(4), F(2))}

ButtonCenter == vec2(F(1), Zero)

\* Mouse positions: the centre of the button, a point on the circle and on
\* the edge of the rectangle, a corner of the rectangle, a point outside.
UiPoints == { vec2(F(1), Zero), vec2(F(3), Zero), vec2(F(3), F(1)),
              vec2(F(4), Zero) }

\* ButtonShape::intersects
intersects(shape, center_pos, pt) ==
    IF shape.kind = "Circle"
    THEN LET dx == QSub(center_pos[1], pt[1])
             dy == QSub(center_pos[2], pt[2])
         IN  QLt(QAdd(QMul(dx, dx), QMul(dy, dy)),
                 QMul(shape.radius, shape.radius))
    ELSE /\ QLe(QSub(center_pos[1], QDiv(shape.width, F(2))), pt[1])
         /\ QLe(pt[1], QAdd(center_pos[1], QDiv(shape.width, F(2))))
         /\ QLe(QSub(center_pos[2], QDiv(shape.height, F(2))), pt[2])
         /\ QLe(pt[2], QAdd(center_pos[2], QDiv(shape.height, F(2))))

\* Button::new: default style, ButtonType::Toggle, no mouse_pos.
NewButton(center_pos, button_shape) ==
    [center_pos |-> center_pos, shape |-> button_shape,
     button_type |-> "Toggle", mouse_pos |-> <<>>]

\* self.mouse_pos.unwrap_or_else(|| mouse_position().into())
EffectiveMouse(b, mouse) == IF b.mouse_pos = <<>> THEN mouse ELSE b.mouse_pos[1]

\* The condition of the `if` of Button::draw.
Activated(b, mouse, pressed, down) ==
    /\ intersects(b.shape, b.center_pos, EffectiveMouse(b, mouse))
    /\ pressed \/ (b.button_type = "Push" /\ down)

\* Mutant: a held mouse button activates a Toggle button as well.
draw_pushed_on_hold(b, mouse, pressed, down, p) ==
    IF /\ intersects(b.shape, b.center_pos, EffectiveMouse(b, mouse))
       /\ pressed \/ down
    THEN (IF b.button_type = "Push" THEN TRUE ELSE ~p)
    ELSE (IF b.button_type = "Push" THEN FALSE ELSE p)

\* *pushed after Button::draw, p being *pushed before it.
draw_pushed(b, mouse, pressed, down, p) ==
    IF Activated(b, mouse, pressed, down)
    THEN (IF b.button_type = "Push" THEN TRUE ELSE ~p)
    ELSE (IF b.button_type = "Push" THEN FALSE ELSE p)

\* The colour pair Button::draw picks from (*pushed, is_hovered).
draw_colors(b, mouse, pressed, down, p) ==
    LET is_hovered ==
            /\ intersects(b.shape, b.center_pos, EffectiveMouse(b, mouse))
            /\ ~Activated(b, mouse, pressed, down)
    IN  IF draw_pushed(b, mouse, pressed, down, p) THEN "pushed"
        ELSE IF is_hovered THEN "hover"
        ELSE "plain"

\* History only: pt is over the shape of b, from the geometry of the shapes
\* (the disc without its circle, the rectangle with its edges).
OverShape(b, pt) ==
    LET x == QSub(pt[1], b.center_pos[1])
        y == QSub(pt[2], b.center_pos[2])
    IN  IF b.shape.kind = "Circle"
        THEN QLt(QAdd(QMul(x, x), QMul(y, y)),
                 QMul(b.shape.radius, b.shape.radius))
        ELSE /\ QLe(QMul(F(2), QAbs(x)), b.shape.width)
             /\ QLe(QMul(F(2), QAbs(y)), b.shape.height)

\* Button::new
ButtonNew(center_pos, button_shape) ==
    /\ panic = "none"
    /\ button' = <<NewButton(center_pos, button_shape)>>
    /\ ulast' = [ulast EXCEPT !.op = "new"]
    /\ UNCHANGED <<pushed, panic>>
    /\ UNCHANGED <<animVars, graphVars>>

\* Button::button_type
ButtonType(button_type) ==
    /\ panic = "none"
    /\ button # <<>>
    /\ button' = <<[button[1] EXCEPT !.button_type = button_type]>>
    /\ ulast' = [ulast EXCEPT !.op = "button_type"]
    /\ UNCHANGED <<pushed, panic>>
    /\ UNCHANGED <<animVars, graphVars>>

\* Button::mouse_pos
MousePos(mouse_pos) ==
    /\ panic = "none"
    /\ button # <<>>
    /\ button' = <<[button[1] EXCEPT !.mouse_pos = <<mouse_pos>>]>>
    /\ ulast' = [ulast EXCEPT !.op = "mouse_pos"]
    /\ UNCHANGED <<pushed, panic>>
    /\ UNCHANGED <<animVars, graphVars>>

\* Button::draw(&mut pushed) in a frame where the host reports the cursor at
\* mouse, is_mouse_button_pressed(Left) = pressed and
\* is_mouse_button_down(Left) = down.  The history counts, up to two, the
\* frames of a Toggle button with the cursor over the shape and the mouse
\* button pressed, and keeps the value pushed had before the first of them;
\* a Push button starts the count again.
ButtonDraw(mouse, pressed, down) ==
    /\ panic = "none"
    /\ button # <<>>
    /\ pushed' = draw_pushed(button[1], mouse, pressed, down, pushed)
    /\ LET b == button[1]
           hit == pressed /\ OverShape(b, EffectiveMouse(b, mouse))
           again == ulast.presses = 2
       IN  ulast' =
             [op |-> "draw", mouse |-> <<mouse>>, pressed |-> pressed,
              down |-> down, pre |-> pushed,
              colors |-> draw_colors(b, mouse, pressed, down, pushed),
              origin |-> IF b.button_type = "Push" THEN pushed'
                         ELSE IF again THEN pushed
                         ELSE ulast.origin,
              presses |-> IF b.button_type = "Push" THEN 0
                          ELSE (IF again THEN 0 ELSE ulast.presses)
                               + (IF hit THEN 1 ELSE 0)]
    /\ UNCHANGED <<button, panic>>
    /\ UNCHANGED <<animVars, graphVars>>

NextButton ==
    \/ \E shape \in ButtonShapes : ButtonNew(ButtonCenter, shape)
    \/ \E t \in {"Push", "Toggle"} : ButtonType(t)
    \/ \E pt \in UiPoints : MousePos(pt)
    \/ \E pt \in UiPoints, pressed \in BOOLEAN, down \in BOOLEAN :
            ButtonDraw(pt, pressed, down)

SpecButton == InitGraph /\ [][NextButton]_vars

\* ---------------------------------------------------------------- C24
\* C24: Button::draw of a Toggle button flips pushed exactly in a frame where
\* the mouse is over the shape and the left button was pressed in that
\* frame, and leaves it alone in every other frame, so that two such presses
\* give back the value pushed had; Button::draw of a Push button leaves
\* pushed true exactly when the mouse is over the shape and the left button
\* is pressed or held in that frame, whatever pushed was.
C24_ButtonPushed ==
    (ulast.op = "draw" /\ button # <<>>) =>
        LET b == button[1]
            over == OverShape(b, EffectiveMouse(b, ulast.mouse[1]))
        IN  /\ panic = "none"
            /\ b.button_type = "Toggle" =>
                   /\ pushed = IF over /\ ulast.pressed THEN ~ulast.pre
                               ELSE ulast.pre
                   /\ ulast.presses = 2 => pushed = ulast.origin
            /\ b.button_type = "Push" =>
                   pushed = (over /\ (ulast.pressed \/ ulast.down))

\* The second press of a Toggle button, in a frame in which the mouse button
\* is no longer reported as held, gave back the value pushed had.
C24_Witness ==
    /\ ulast.op = "draw"
    /\ button # <<>>
    /\ button[1].button_type = "Toggle"
    /\ ulast.presses = 2
    /\ ulast.pressed
    /\ ~ulast.down
    /\ pushed = ulast.origin
    /\ pushed # ulast.pre

====
